---------------------------- MODULE Spec2Model ----------------------------
(***************************************************************************)
(* A model of the PerseusXR (3DGS-X) processing helpers.                   *)
(*                                                                         *)
(*   - the pose interpolator's matching logic, find_nearest_frames and     *)
(*     interpolate_pose, as replicated in tests/test_c2_timestamp_drift.py *)
(*   - the clock-drift scenarios of that test file (50 Hz pose stream,     *)
(*     3 fps camera stream, a 10 s session, the 30 ms window)              *)
(*   - the per-frame state machine of the Frame Synchronizer               *)
(*   - the depth lineariser's safe division and the tone mapper's          *)
(*     dispatch (utils/depth_utils.py and utils/image_utils.py live in     *)
(*     the perseusxr-reconstruction submodule: only their tests are in     *)
(*     the source tree)                                                    *)
(*   - extract_translation_logic on a camera_pose record                   *)
(*     (tests/test_m4_dict_mutation.py)                                    *)
(*   - the CsvWriter directory check, buggy and correct                    *)
(*     (tests/test_h1_csvwriter_dircheck.py)                               *)
(*   - the processor, perseusxr_process.py: its rewrite of                 *)
(*     pipeline_config.yml and two runs of main() on one checkout          *)
(*                                                                         *)
(* Python values.  None is the empty tuple and a value v that may be None  *)
(* is the one-element tuple <<v>>.  A call's outcome is a record: exc is   *)
(* the exception it raised ("none" when it returned) and val its return    *)
(* value.                                                                  *)
(***************************************************************************)
EXTENDS Integers, Sequences, FiniteSets, TLC

VARIABLES
    \* ---- pose interpolator (shared by the three pose specifications)
    pose_ts,   \* the pose stream, a list of integer milliseconds
    window,         \* the matching window
    \* ---- one call of the interpolator on one target
    target,         \* the frame timestamp looked up
    nearest,           \* outcome of find_nearest_frames, NotCalled before
    pose,              \* outcome of interpolate_pose, NotCalled before
    pose_pc,           \* "start" -> "nearest" -> "done"
    \* ---- the drift scenarios of TestC2_TimestampDrift
    session_start,     \* base time of the pose stream
    drift_ms,          \* how much earlier the camera base time is
    cam_ts,            \* the camera timestamps
    cam_i,             \* number of camera frames looked up so far
    matched,           \* how many of them got a pose
    first_result,      \* interpolate_pose's result for cam_ts[0]
    \* ---- Frame Synchronizer
    frames,            \* per frame: timestamp, state, drop_reason
    samples,           \* the SynchronizedSamples emitted, in emission order
    \* ---- depth lineariser
    ndc_buffer,        \* the NDC samples, in units of 1/Scale
    depth_x, depth_y,  \* the conversion parameters, in units of 1/Scale
    linear,            \* outcome of to_linear_depth, NotCalled before
    \* ---- tone mapper
    tone_image,        \* the input image, a list of pixel values
    tone_method,       \* the method name passed
    tone_result,       \* outcome of apply_tone_mapping, NotCalled before
    tone_calls,        \* how many times apply_tone_mapping was entered
    \* ---- extract_translation_logic on one camera_pose record
    heap,              \* the lists alive, by reference: heap[r] is list r
    cam_pose,          \* the record: its translation is a reference
    translation0,      \* the translation list as it was before any call
    extract_result,    \* outcome of the last call, NotCalled before
    extract_calls,     \* how many calls were made on the record
    \* ---- the CsvWriter directory check on one file path
    fs,                \* the filesystem below the working directory
    fs0,               \* the filesystem as it was before the call
    file_path,         \* the path passed, a list of components
    dir_check,         \* which check was called: "buggy" or "correct"
    dir_result,        \* outcome of the call, NotCalled before
    \* ---- the config rewrite on one list of lines
    cfg_lines,         \* the lines read from the config file
    cfg_modified,      \* outcome of simulate_config_mutation, NotCalled before
    \* ---- runs of the processor (perseusxr_process.py) on one checkout
    cfg_file,          \* pipeline_config.yml: its lines
    cfg_orig,          \* its lines before any run
    cfg_access,        \* "rw", "ro" (not writable) or "absent"
    engine_script,     \* whether e2e_quest_to_colmap.py is there
    run,               \* per run: position, arguments, locals, exit status,
                       \* and the steps it has taken, in order
    cfg_writer,        \* the run that last truncated or wrote the file
    cfg_shared,        \* reads and overwrites of what another run wrote
    cfg_torn,          \* a run read the file while another had it truncated
    \* ---- mock session generator
    out_dir,           \* what lies at and below output_dir
    out_dir0,          \* the same before the latest call
    frames_arg,        \* frame_count of the latest call, None before
    mock_result,       \* outcome and message of the latest call
    mock_calls         \* calls made so far

poseVars  == <<pose_ts, window>>
callVars  == <<target, nearest, pose, pose_pc>>
driftVars == <<session_start, drift_ms, cam_ts, cam_i, matched, first_result>>
syncVars  == <<frames, samples>>
depthVars == <<ndc_buffer, depth_x, depth_y, linear>>
toneVars  == <<tone_image, tone_method, tone_result, tone_calls>>
dictVars  == <<heap, cam_pose, translation0, extract_result, extract_calls>>
dirVars   == <<fs, fs0, file_path, dir_check, dir_result>>
rewriteVars == <<cfg_lines, cfg_modified>>
runVars   == <<cfg_file, cfg_orig, cfg_access, engine_script, run,
               cfg_writer, cfg_shared, cfg_torn>>
mockVars  == <<out_dir, out_dir0, frames_arg, mock_result, mock_calls>>
toolVars  == <<dictVars, dirVars, rewriteVars, runVars, mockVars>>
coreVars  == <<poseVars, callVars, driftVars, syncVars, depthVars, toneVars>>
vars == <<coreVars, toolVars>>

(***************************************************************************)
(* Bounds of the model.                                                    *)
(***************************************************************************)
MaxTs     == 3   \* pose and target timestamps of the small streams: 0..MaxTs
MaxPoses  == 3   \* longest small pose stream
MaxWindow == 2   \* windows of the small streams: 0..MaxWindow
MaxFrames == 2   \* frames handed to the Frame Synchronizer: 1..MaxFrames
MaxSyncTs == 2   \* its pose and frame timestamps: 0..MaxSyncTs
MaxSyncPoses == 2   \* its longest pose stream
MaxSyncWindow == 1  \* its windows: 0..MaxSyncWindow
Scale == 4       \* depth values are multiples of 1/Scale
MaxBuffer == 2   \* longest NDC buffer
MaxPixels == 2   \* longest image
MaxLevel == 3    \* pixel values: 0..MaxLevel
MaxComponents == 4    \* longest translation list
MaxCoord == 1         \* translation components: -MaxCoord..MaxCoord
MaxExtractCalls == 3  \* calls of extract_translation_logic on one record
MaxDepth == 2         \* deepest filesystem entry below the working directory
MaxLines == 4         \* longest config file of the rewrite, in lines
MaxRunLines == 2      \* longest config file of the processor runs, in lines
MaxMockFrames == 2    \* largest frame_count of a mock session
MaxMockCalls == 2     \* calls of generate_mock_session on one output_dir

(***************************************************************************)
(* Python values.                                                          *)
(***************************************************************************)
None == <<>>
Some(v) == <<v>>

NoError == "none"
IndexError == "IndexError"
Return(v) == [exc |-> NoError, val |-> v]
Raise(e) == [exc |-> e]
NotCalled == [exc |-> "not called"]

\* list[idx] for idx = -1 (the last item) or idx >= 0; IndexError out of range.
PyItem(list, idx) ==
    IF idx = -1
    THEN IF list = <<>> THEN Raise(IndexError) ELSE Return(list[Len(list)])
    ELSE IF idx + 1 > Len(list) THEN Raise(IndexError) ELSE Return(list[idx + 1])

(***************************************************************************)
(* find_nearest_frames, tests/test_c2_timestamp_drift.py lines 17-28.      *)
(***************************************************************************)
\* line 25 with the window_ms test made strict
prev_of_strict_window(before, target_ts, window_ms) ==
    IF before = <<>>
    THEN Return(None)
    ELSE LET last == PyItem(before, -1)
         IN  IF last.exc # NoError THEN last
             ELSE IF (target_ts - last.val) < window_ms
                  THEN Return(Some(last.val))
                  ELSE Return(None)

\* line 25 without the `before and` guard
prev_of_unguarded(before, target_ts, window_ms) ==
    LET last == PyItem(before, -1)
    IN  IF last.exc # NoError THEN last
        ELSE IF (target_ts - last.val) <= window_ms
             THEN Return(Some(last.val))
             ELSE Return(None)

\* line 25: prev = before[-1] if before and (target_ts - before[-1]) <= window_ms else None
prev_of(before, target_ts, window_ms) ==
    IF before = <<>>
    THEN Return(None)
    ELSE LET last == PyItem(before, -1)
         IN  IF last.exc # NoError THEN last
             ELSE IF (target_ts - last.val) <= window_ms
                  THEN Return(Some(last.val))
                  ELSE Return(None)

\* line 26 taking the last item of `after` instead of the first
next_of_last(after, target_ts, window_ms) ==
    IF after = <<>>
    THEN Return(None)
    ELSE LET first == PyItem(after, -1)
         IN  IF first.exc # NoError THEN first
             ELSE IF (first.val - target_ts) <= window_ms
                  THEN Return(Some(first.val))
                  ELSE Return(None)

\* line 26: nxt = after[0] if after and (after[0] - target_ts) <= window_ms else None
next_of(after, target_ts, window_ms) ==
    IF after = <<>>
    THEN Return(None)
    ELSE LET first == PyItem(after, 0)
         IN  IF first.exc # NoError THEN first
             ELSE IF (first.val - target_ts) <= window_ms
                  THEN Return(Some(first.val))
                  ELSE Return(None)

\* lines 22-23 with strict comparisons: a pose at the target_ts itself is lost
find_nearest_frames_strict(pose_timestamps, target_ts, window_ms) ==
    LET before == SelectSeq(pose_timestamps, LAMBDA t : t < target_ts)
        after  == SelectSeq(pose_timestamps, LAMBDA t : t > target_ts)
        prev   == prev_of(before, target_ts, window_ms)
        nxt    == next_of(after, target_ts, window_ms)
    IN  IF prev.exc # NoError THEN prev
        ELSE IF nxt.exc # NoError THEN nxt
        ELSE Return(<<prev.val, nxt.val>>)

\* The returned pair (prev, nxt) is val[1], val[2].
find_nearest_frames(pose_timestamps, target_ts, window_ms) ==
    LET before == SelectSeq(pose_timestamps, LAMBDA t : t <= target_ts)
        after  == SelectSeq(pose_timestamps, LAMBDA t : t >= target_ts)
        prev   == prev_of(before, target_ts, window_ms)
        nxt    == next_of(after, target_ts, window_ms)
    IN  IF prev.exc # NoError THEN prev
        ELSE IF nxt.exc # NoError THEN nxt
        ELSE Return(<<prev.val, nxt.val>>)

(***************************************************************************)
(* interpolate_pose, tests/test_c2_timestamp_drift.py lines 31-39.         *)
(***************************************************************************)
\* line 37 with `and` for `or`
interpolate_pose_and(pose_timestamps, target_ts, window_ms) ==
    LET found == find_nearest_frames(pose_timestamps, target_ts, window_ms)
    IN  IF found.exc # NoError THEN found
        ELSE IF found.val[1] = None /\ found.val[2] = None
             THEN Return(None)
             ELSE Return(Some(TRUE))

\* lines 37-38 left out: the result is never None
interpolate_pose_unchecked(pose_timestamps, target_ts, window_ms) ==
    LET found == find_nearest_frames(pose_timestamps, target_ts, window_ms)
    IN  IF found.exc # NoError THEN found ELSE Return(Some(TRUE))

\* Returns None, or True where the interpolation would succeed.
interpolate_pose(pose_timestamps, target_ts, window_ms) ==
    LET found == find_nearest_frames(pose_timestamps, target_ts, window_ms)
    IN  IF found.exc # NoError THEN found
        ELSE IF found.val[1] = None \/ found.val[2] = None
             THEN Return(None)
             ELSE Return(Some(TRUE))

(***************************************************************************)
(* The variables of a part of the model that a specification leaves alone. *)
(***************************************************************************)
CallIdle ==
    /\ target = 0
    /\ nearest = NotCalled
    /\ pose = NotCalled
    /\ pose_pc = "idle"

DriftIdle ==
    /\ session_start = 0
    /\ drift_ms = 0
    /\ cam_ts = <<>>
    /\ cam_i = 0
    /\ matched = 0
    /\ first_result = NotCalled

SyncIdle ==
    /\ frames = <<>>
    /\ samples = <<>>

DepthIdle ==
    /\ ndc_buffer = <<>>
    /\ depth_x = 0
    /\ depth_y = 0
    /\ linear = NotCalled

ToneIdle ==
    /\ tone_image = <<>>
    /\ tone_method = ""
    /\ tone_result = NotCalled
    /\ tone_calls = 0

PoseIdle ==
    /\ pose_ts = <<>>
    /\ window = 0

CoreIdle == PoseIdle /\ CallIdle /\ DriftIdle /\ SyncIdle /\ DepthIdle /\ ToneIdle

DictIdle ==
    /\ heap = <<>>
    /\ cam_pose = None
    /\ translation0 = <<>>
    /\ extract_result = NotCalled
    /\ extract_calls = 0

DirIdle ==
    /\ fs = <<>>
    /\ fs0 = <<>>
    /\ file_path = <<>>
    /\ dir_check = ""
    /\ dir_result = NotCalled

RewriteIdle ==
    /\ cfg_lines = <<>>
    /\ cfg_modified = NotCalled

RunIdle ==
    /\ cfg_file = <<>>
    /\ cfg_orig = <<>>
    /\ cfg_access = ""
    /\ engine_script = FALSE
    /\ run = <<>>
    /\ cfg_writer = ""
    /\ cfg_shared = {}
    /\ cfg_torn = FALSE

MockIdle ==
    /\ out_dir = <<>>
    /\ out_dir0 = <<>>
    /\ frames_arg = None
    /\ mock_result = NotCalled
    /\ mock_calls = 0

ToolsIdle == DictIdle /\ DirIdle /\ RewriteIdle /\ RunIdle /\ MockIdle

(***************************************************************************)
(* SpecPose: one call of find_nearest_frames and one of interpolate_pose   *)
(* on a pose stream, a target and a window drawn from the small sets.  The *)
(* stream is any list, sorted or not: the functions take what they get.    *)
(***************************************************************************)
Timestamps == 0..MaxTs
Streams == UNION {[1..n -> Timestamps] : n \in 0..MaxPoses}
Windows == 0..MaxWindow

IsSorted(s) == \A i \in 1..Len(s) : \A j \in i..Len(s) : s[i] <= s[j]

InitPose ==
    /\ pose_ts \in Streams
    /\ window \in Windows
    /\ target \in Timestamps
    /\ nearest = NotCalled
    /\ pose = NotCalled
    /\ pose_pc = "start"
    /\ DriftIdle /\ SyncIdle /\ DepthIdle /\ ToneIdle /\ ToolsIdle

CallFindNearest ==
    /\ pose_pc = "start"
    /\ nearest' = find_nearest_frames(pose_ts, target, window)
    /\ pose_pc' = "nearest"
    /\ UNCHANGED <<poseVars, target, pose, driftVars, syncVars, depthVars, toneVars, toolVars>>

CallInterpolate ==
    /\ pose_pc = "nearest"
    /\ pose' = interpolate_pose(pose_ts, target, window)
    /\ pose_pc' = "done"
    /\ UNCHANGED <<poseVars, target, nearest, driftVars, syncVars, depthVars, toneVars, toolVars>>

NextPose == CallFindNearest \/ CallInterpolate

SpecPose == InitPose /\ [][NextPose]_vars

(***************************************************************************)
(* What the contract of section 4.1 asks of the two bounds, stated on the  *)
(* set of pose timestamps and not on the list.                             *)
(***************************************************************************)
StreamSet == {pose_ts[i] : i \in 1..Len(pose_ts)}
AtOrBefore == {t \in StreamSet : t <= target}
AtOrAfter == {t \in StreamSet : t >= target}
Greatest(S) == CHOOSE m \in S : \A t \in S : t <= m
Least(S) == CHOOSE m \in S : \A t \in S : m <= t

ExpectedPrev ==
    IF AtOrBefore # {} /\ target - Greatest(AtOrBefore) <= window
    THEN Some(Greatest(AtOrBefore)) ELSE None
ExpectedNext ==
    IF AtOrAfter # {} /\ Least(AtOrAfter) - target <= window
    THEN Some(Least(AtOrAfter)) ELSE None

Found == nearest.exc = NoError
Prev == nearest.val[1]
Nxt == nearest.val[2]

\* C1: on a non-decreasing pose stream find_nearest_frames returns as prev
\* the greatest pose timestamp <= target when it is at most window away
\* and None otherwise, and as next the least pose timestamp >= target when it
\* is at most window away and None otherwise, each side on its own.
C1_NearestBounds ==
    (pose_pc # "start" /\ IsSorted(pose_ts)) =>
        /\ Found
        /\ Prev = ExpectedPrev
        /\ Nxt = ExpectedNext

\* Both sides decided independently, at a distance of exactly window:
\* prev lies exactly window >= 1 before the target and is returned, while
\* next is None although a later pose exists.
C1_Witness ==
    /\ pose_pc # "start"
    /\ IsSorted(pose_ts)
    /\ window >= 1
    /\ Found
    /\ Prev = Some(target - window)
    /\ Nxt = None
    /\ AtOrAfter # {}

\* C2: interpolate_pose returns None exactly when find_nearest_frames
\* returned None for prev or for next, on every stream (sorted or not, the
\* empty one included), and neither call raises.
C2_NullIffBoundMissing ==
    (pose_pc = "done") =>
        /\ Found
        /\ pose.exc = NoError
        /\ (pose.val = None) <=> (Prev = None \/ Nxt = None)

\* The empty stream: both bounds None, the pose None, nothing raised.
C2_Witness ==
    /\ pose_pc = "done"
    /\ pose_ts = <<>>
    /\ nearest = Return(<<None, None>>)
    /\ pose = Return(None)

\* One bound found, the other not: the pose is None.
C2_WitnessOneSide ==
    /\ pose_pc = "done"
    /\ Found
    /\ Prev # None
    /\ Nxt = None
    /\ pose = Return(None)

\* C3 as claimed: whenever some pose timestamp equals the target,
\* find_nearest_frames returns the target as prev and as next for every
\* window, 0 included, and interpolate_pose returns a pose; on every pose
\* stream, whatever its order.
C3_ExactMatchAnyOrder ==
    target \in StreamSet =>
        /\ pose_pc # "start" => nearest = Return(<<Some(target), Some(target)>>)
        /\ pose_pc = "done" => pose = Return(Some(TRUE))

\* The same on the non-decreasing pose streams only, where it holds.
C3_ExactMatch ==
    (IsSorted(pose_ts) /\ target \in StreamSet) =>
        /\ pose_pc # "start" => nearest = Return(<<Some(target), Some(target)>>)
        /\ pose_pc = "done" => pose = Return(Some(TRUE))

\* An exact match under window 0, with other poses on both sides.
C3_Witness ==
    /\ pose_pc = "done"
    /\ IsSorted(pose_ts)
    /\ window = 0
    /\ target \in StreamSet
    /\ \E t \in StreamSet : t < target
    /\ \E t \in StreamSet : t > target
    /\ nearest = Return(<<Some(target), Some(target)>>)
    /\ pose = Return(Some(TRUE))

(***************************************************************************)
(* SpecDrift: the scenarios of TestC2_TimestampDrift.  A 50 Hz pose stream *)
(* and a 3 fps camera stream of a 10 s session; the camera's base time is  *)
(* drift_ms earlier than the pose stream's (later when drift_ms < 0), and  *)
(* every camera timestamp is looked up under the default 30 ms window.     *)
(*                                                                         *)
(* Python's integers are unbounded and the test's base time, 1740000000000,*)
(* is beyond TLC's 32-bit integers; the functions only compare and         *)
(* subtract timestamps, so the model's base times are smaller.             *)
(***************************************************************************)
DefaultWindowMs == 30
PoseRateHz == 50
CameraFps == 3
DurationSec == 10
SessionStarts == {0, 1740000000}
Drifts == {0, 29, 31, 2000, 60000, -29, -31, -60000}

\* int(i * (1000.0 / rate)).  The double product truncates to the integer
\* quotient for every i < 195 at rate 3 and for every i at rate 50; the
\* streams here have 30 and 500 entries.
PeriodOffset(i, rate) == (i * 1000) \div rate

_make_pose_timestamps(base_time_ms, duration_sec, rate_hz) ==
    LET n == duration_sec * rate_hz
    IN  [k \in 1..n |-> base_time_ms + PeriodOffset(k - 1, rate_hz)]

_make_camera_timestamps(base_time_ms, duration_sec, rate_fps) ==
    LET n == duration_sec * rate_fps
    IN  [k \in 1..n |-> base_time_ms + PeriodOffset(k - 1, rate_fps)]

\* the camera base re-synced to the session start (ResetBaseTime)
CameraBase_reset(start, drift) == start

\* session_start - drift_ms, lines 84, 107, 134
CameraBase(start, drift) == start - drift

InitDrift ==
    /\ session_start \in SessionStarts
    /\ drift_ms \in Drifts
    /\ pose_ts = _make_pose_timestamps(session_start, DurationSec, PoseRateHz)
    /\ cam_ts = _make_camera_timestamps(CameraBase(session_start, drift_ms),
                                        DurationSec, CameraFps)
    /\ window = DefaultWindowMs
    /\ cam_i = 0
    /\ matched = 0
    /\ first_result = NotCalled
    /\ CallIdle /\ SyncIdle /\ DepthIdle /\ ToneIdle /\ ToolsIdle

\* One turn of `sum(1 for t in cam_ts if interpolate_pose(pose_ts, t) is not None)`.
LookUpFrame ==
    /\ cam_i < Len(cam_ts)
    /\ LET r == interpolate_pose(pose_ts, cam_ts[cam_i + 1], window)
       IN  /\ matched' = IF r.exc = NoError /\ r.val # None
                         THEN matched + 1 ELSE matched
           /\ first_result' = IF cam_i = 0 THEN r ELSE first_result
    /\ cam_i' = cam_i + 1
    /\ UNCHANGED <<poseVars, session_start, drift_ms, cam_ts,
                   callVars, syncVars, depthVars, toneVars, toolVars>>

NextDrift == LookUpFrame

SpecDrift == InitDrift /\ [][NextDrift]_vars

AllLookedUp == cam_i = Len(cam_ts)

\* C4: with no drift (the two streams share the base time), 500 pose samples
\* at 50 Hz, 30 camera frames at 3 fps and the 30 ms window, more than 90 %
\* of the camera frames get a pose.
C4_NoDriftMatchRate ==
    (drift_ms = 0) =>
        /\ Len(pose_ts) = 500
        /\ Len(cam_ts) = 30
        /\ AllLookedUp => 10 * matched > 9 * Len(cam_ts)

\* All 30 frames looked up without drift; every one of them matched.
C4_Witness ==
    /\ drift_ms = 0
    /\ AllLookedUp
    /\ cam_ts[2] = session_start + 333
    /\ matched = 30

\* C5: with the camera base shifted by 60,000 ms against the pose stream no
\* camera frame gets a pose: 0 matches at every point of the run.
C5_SixtySecondDriftDropsAll ==
    (drift_ms = 60000 \/ drift_ms = -60000) =>
        /\ matched = 0
        /\ cam_i >= 1 => first_result = Return(None)

\* The run of the test (camera base 60 s early) is over, with 0 matches.
C5_Witness ==
    /\ drift_ms = 60000
    /\ cam_ts[1] = pose_ts[1] - 60000
    /\ AllLookedUp
    /\ Len(cam_ts) = 30
    /\ matched = 0

\* C6: with the camera base 31 ms earlier than the first pose timestamp the
\* first camera frame gets no pose.
C6_FirstFrameDroppedAt31 ==
    (drift_ms = 31 /\ cam_i >= 1) =>
        /\ cam_ts[1] = pose_ts[1] - 31
        /\ first_result = Return(None)

\* The first frame of the 31 ms scenario has been looked up and dropped.
C6_Witness ==
    /\ drift_ms = 31
    /\ cam_i = 1
    /\ matched = 0
    /\ first_result = Return(None)

\* C7 as claimed: with the camera base 29 ms earlier than the first pose
\* timestamp the first camera frame gets a pose.
C7_FirstFrameKeptAt29 ==
    (drift_ms = 29 /\ cam_i >= 1) =>
        /\ first_result.exc = NoError
        /\ first_result.val # None

\* C7 as amended: with the camera base 29 ms earlier than the first pose
\* timestamp the first camera frame is dropped too: the first pose is its
\* next bound, 29 ms away, but no pose lies at or before it, so prev is None
\* and so is the pose.  With the camera base 29 ms later it gets a pose.
C7_FirstFrameDroppedAt29 ==
    /\ (drift_ms = 29 /\ cam_i >= 1) =>
        /\ cam_ts[1] = pose_ts[1] - 29
        /\ find_nearest_frames(pose_ts, cam_ts[1], window)
               = Return(<<None, Some(pose_ts[1])>>)
        /\ first_result = Return(None)
    /\ (drift_ms = -29 /\ cam_i >= 1) =>
        /\ cam_ts[1] = pose_ts[1] + 29
        /\ first_result = Return(Some(TRUE))

\* The first frame of the 29 ms scenario has been looked up and dropped.
C7_Witness ==
    /\ drift_ms = 29
    /\ cam_i = 1
    /\ matched = 0
    /\ first_result = Return(None)

(***************************************************************************)
(* SpecSync: the Frame Synchronizer of section 4.5.  Every frame of the    *)
(* session is PENDING at first; a step takes any pending frame (frames are *)
(* independent tasks, section 5), asks the pose interpolator for a pose    *)
(* and either drops the frame with a reason or emits its                   *)
(* SynchronizedSample.  The pose stream is sorted (section 3).             *)
(***************************************************************************)
NO_POSE_WITHIN_WINDOW == "NO_POSE_WITHIN_WINDOW"
Terminal == {"MATCHED", "DROPPED"}

PendingFrame(t) == [timestamp |-> t, state |-> "PENDING", drop_reason |-> None]

\* a drop that still assembles a sample, with a null pose
sync_frame_sample_on_drop(frame, i, result) ==
    IF result.val = None
    THEN [frame  |-> [frame EXCEPT !.state = "DROPPED",
                                   !.drop_reason = Some(NO_POSE_WITHIN_WINDOW)],
          sample |-> Some([frame |-> i, frame_timestamp |-> frame.timestamp,
                           pose |-> None])]
    ELSE [frame  |-> [frame EXCEPT !.state = "MATCHED"],
          sample |-> Some([frame |-> i, frame_timestamp |-> frame.timestamp,
                           pose |-> result.val])]

\* What becomes of frame number i given the interpolator's result: the
\* frame's new record and the sample emitted for it, None on a drop.
sync_frame(frame, i, result) ==
    IF result.val = None
    THEN [frame  |-> [frame EXCEPT !.state = "DROPPED",
                                   !.drop_reason = Some(NO_POSE_WITHIN_WINDOW)],
          sample |-> None]
    ELSE [frame  |-> [frame EXCEPT !.state = "MATCHED"],
          sample |-> Some([frame |-> i, frame_timestamp |-> frame.timestamp,
                           pose |-> result.val])]

SyncTimestamps == 0..MaxSyncTs
SyncStreams ==
    {s \in UNION {[1..n -> SyncTimestamps] : n \in 0..MaxSyncPoses} : IsSorted(s)}

InitSync ==
    /\ pose_ts \in SyncStreams
    /\ window \in 0..MaxSyncWindow
    /\ \E n \in 1..MaxFrames :
           \E ts \in [1..n -> SyncTimestamps] :
               frames = [i \in 1..n |-> PendingFrame(ts[i])]
    /\ samples = <<>>
    /\ CallIdle /\ DriftIdle /\ DepthIdle /\ ToneIdle /\ ToolsIdle

Synchronize(i) ==
    /\ frames[i].state = "PENDING"
    /\ LET result == interpolate_pose(pose_ts, frames[i].timestamp, window)
           out    == sync_frame(frames[i], i, result)
       IN  /\ result.exc = NoError
           /\ frames' = [frames EXCEPT ![i] = out.frame]
           /\ samples' = IF out.sample = None
                         THEN samples
                         ELSE Append(samples, out.sample[1])
    /\ UNCHANGED <<poseVars, callVars, driftVars, depthVars, toneVars, toolVars>>

NextSync == \E i \in DOMAIN frames : Synchronize(i)

SpecSync == InitSync /\ [][NextSync]_vars

SamplesOf(i) == {k \in DOMAIN samples : samples[k].frame = i}
InterpolatorNull(i) ==
    interpolate_pose(pose_ts, frames[i].timestamp, window) = Return(None)

FrameStateOk(i) ==
    LET f == frames[i]
    IN  /\ f.state \in {"PENDING"} \cup Terminal
        /\ f.state = "PENDING" =>
               /\ f.drop_reason = None
               /\ SamplesOf(i) = {}
        /\ f.state = "DROPPED" =>
               /\ InterpolatorNull(i)
               /\ f.drop_reason = Some(NO_POSE_WITHIN_WINDOW)
               /\ SamplesOf(i) = {}
        /\ f.state = "MATCHED" =>
               /\ ~InterpolatorNull(i)
               /\ f.drop_reason = None
               /\ Cardinality(SamplesOf(i)) = 1
               /\ \A k \in SamplesOf(i) :
                      /\ samples[k].frame_timestamp = f.timestamp
                      /\ samples[k].pose # None

TerminalIsFinal ==
    \A i \in DOMAIN frames :
        frames[i].state \in Terminal =>
            /\ frames'[i] = frames[i]
            /\ \A k \in DOMAIN samples : samples'[k] = samples[k]

\* C8: every frame starts PENDING; it leaves PENDING only for MATCHED or
\* DROPPED and a frame in one of these never changes again (no retry), nor
\* does a sample once emitted; while a frame is pending the synchronizer can
\* still take a step, so every frame ends in a terminal state.  A frame is
\* DROPPED, with reason NO_POSE_WITHIN_WINDOW and no sample, exactly when the
\* interpolator returns None for its timestamp, and MATCHED with exactly one
\* sample otherwise.
C8_FrameLifecycle ==
    /\ \A i \in DOMAIN frames : frames[i].state = "PENDING"
    /\ [](\A i \in DOMAIN frames : FrameStateOk(i))
    /\ [][TerminalIsFinal]_vars
    /\ []((\E i \in DOMAIN frames : frames[i].state = "PENDING") => ENABLED NextSync)

\* Two frames, both handled: one dropped with its reason, one matched, and
\* the only sample is the matched frame's.
C8_Witness ==
    /\ Len(frames) = 2
    /\ frames[1].state = "DROPPED"
    /\ frames[1].drop_reason = Some(NO_POSE_WITHIN_WINDOW)
    /\ frames[2].state = "MATCHED"
    /\ Len(samples) = 1
    /\ samples[1].frame = 2

(***************************************************************************)
(* SpecDepth: to_linear_depth of section 4.3 on a buffer of NDC samples.   *)
(* utils/depth_utils.py is not in the source tree; the conversion is the   *)
(* one section 4.3 gives, linear = x / (ndc * 2 - 1 - y), with the safety  *)
(* rule for a zero denominator.  Samples and parameters are multiples of   *)
(* 1/Scale, the quotient is an exact fraction, and a division without the  *)
(* rule yields what the array division yields: an infinity or a NaN.       *)
(***************************************************************************)
Finite(n, d) == [kind |-> "finite", num |-> n, den |-> d]
Zero == Finite(0, 1)
Inf(sign) == [kind |-> "inf", sign |-> sign]
NaN == [kind |-> "nan"]

RECURSIVE Gcd(_, _)
Gcd(a, b) == IF b = 0 THEN a ELSE Gcd(b, a % b)
Abs(a) == IF a < 0 THEN -a ELSE a

\* n / d for d # 0, in lowest terms with a positive denominator
Fraction(n, d) ==
    LET g == Gcd(Abs(n), Abs(d))
        sgn == IF d < 0 THEN -1 ELSE 1
    IN  Finite(sgn * (n \div g), sgn * (d \div g))

\* ndc * 2 - 1 - y, in units of 1/Scale
Denominator(ndc, y) == 2 * ndc - Scale - y

\* the division without the safety rule
linear_sample_unsafe(ndc, x, y) ==
    LET denom == Denominator(ndc, y)
    IN  IF denom = 0
        THEN IF x = 0 THEN NaN ELSE Inf(IF x < 0 THEN -1 ELSE 1)
        ELSE Fraction(x, denom)

linear_sample(ndc, x, y) ==
    LET denom == Denominator(ndc, y)
    IN  IF denom = 0 THEN Zero ELSE Fraction(x, denom)

to_linear_depth(d, x, y) ==
    Return([i \in 1..Len(d) |-> linear_sample(d[i], x, y)])

InitDepth ==
    /\ ndc_buffer \in UNION {[1..n -> 0..Scale] : n \in 1..MaxBuffer}
    /\ depth_x \in -Scale..Scale
    /\ depth_y \in -Scale..Scale
    /\ linear = NotCalled
    /\ pose_ts = <<>> /\ window = 0
    /\ CallIdle /\ DriftIdle /\ SyncIdle /\ ToneIdle /\ ToolsIdle

CallToLinearDepth ==
    /\ linear = NotCalled
    /\ linear' = to_linear_depth(ndc_buffer, depth_x, depth_y)
    /\ UNCHANGED <<ndc_buffer, depth_x, depth_y,
                   poseVars, callVars, driftVars, syncVars, toneVars, toolVars>>

NextDepth == CallToLinearDepth

SpecDepth == InitDepth /\ [][NextDepth]_vars

\* C9: to_linear_depth raises nothing and returns one finite value per
\* sample; for every sample whose denominator is exactly zero that value is
\* exactly 0.0, not NaN and not an infinity.
C9_ZeroDenominatorIsZero ==
    (linear # NotCalled) =>
        /\ linear.exc = NoError
        /\ Len(linear.val) = Len(ndc_buffer)
        /\ \A i \in 1..Len(ndc_buffer) :
               /\ linear.val[i].kind = "finite"
               /\ Denominator(ndc_buffer[i], depth_y) = 0 => linear.val[i] = Zero

\* The case of test_linear_depth_zero_denom_safe: ndc = 0.5, x = 1.0,
\* y = 0.0 gives a zero denominator and the result 0.0.
C9_Witness ==
    /\ linear # NotCalled
    /\ Len(ndc_buffer) = 1
    /\ 2 * ndc_buffer[1] = Scale
    /\ depth_x = Scale
    /\ depth_y = 0
    /\ Denominator(ndc_buffer[1], depth_y) = 0
    /\ linear.val[1] = Zero

(***************************************************************************)
(* SpecTone: apply_tone_mapping of section 4.4.  utils/image_utils.py is   *)
(* not in the source tree; the dispatch is the one section 4.4 gives.  An  *)
(* image is a list of pixel values; what a strategy computes is left open: *)
(* its result is the strategy's name with the image it was applied to.     *)
(***************************************************************************)
UnsupportedMethod == "UnsupportedMethod"
SupportedMethods == {"clahe", "gamma"}
Methods == SupportedMethods \cup {"nonexistent", "histeq", ""}
Images == UNION {[1..n -> 0..MaxLevel] : n \in 1..MaxPixels}

Enhanced(strategy, image) ==
    [strategy |-> strategy, source |-> image, shape |-> Len(image)]

\* an unknown method falls back to the default strategy
apply_tone_mapping_fallback(image, method) ==
    IF method \in SupportedMethods
    THEN Return(Enhanced(method, image))
    ELSE Return(Enhanced("clahe", image))

apply_tone_mapping(image, method) ==
    IF method \in SupportedMethods
    THEN Return(Enhanced(method, image))
    ELSE [exc |-> UnsupportedMethod, method |-> method]

InitTone ==
    /\ tone_image \in Images
    /\ tone_method \in Methods
    /\ tone_result = NotCalled
    /\ tone_calls = 0
    /\ pose_ts = <<>> /\ window = 0
    /\ CallIdle /\ DriftIdle /\ SyncIdle /\ DepthIdle /\ ToolsIdle

\* The one call; a failure is surfaced to the caller and not retried.
CallApplyToneMapping ==
    /\ tone_result = NotCalled
    /\ tone_result' = apply_tone_mapping(tone_image, tone_method)
    /\ tone_calls' = tone_calls + 1
    /\ UNCHANGED <<tone_image, tone_method,
                   poseVars, callVars, driftVars, syncVars, depthVars, toolVars>>

NextTone == CallApplyToneMapping

SpecTone == InitTone /\ [][NextTone]_vars

\* C10: apply_tone_mapping with a method that is not a supported strategy
\* fails with UnsupportedMethod carrying the method name and returns no
\* image; the call is made once and nothing follows it; the input image is
\* never changed.
C10_UnsupportedMethodFails ==
    /\ []((tone_method \notin SupportedMethods /\ tone_result # NotCalled) =>
            /\ tone_result = [exc |-> UnsupportedMethod, method |-> tone_method]
            /\ "val" \notin DOMAIN tone_result
            /\ tone_calls = 1)
    /\ [][tone_image' = tone_image]_vars
    /\ [][(tone_result # NotCalled) => UNCHANGED toneVars]_vars

\* The test's call: method "nonexistent" has failed with the error naming it.
C10_Witness ==
    /\ tone_method = "nonexistent"
    /\ tone_result.exc = UnsupportedMethod
    /\ tone_result.method = "nonexistent"
    /\ tone_calls = 1

(***************************************************************************)
(* SpecPoseDrift: the single calls of SpecPose and the capture scenarios   *)
(* of SpecDrift side by side.  A behaviour starts in one of the two and    *)
(* stays there: the other part's variables are idle and its action is      *)
(* disabled.                                                               *)
(***************************************************************************)
SpecPoseDrift == (InitPose \/ InitDrift) /\ [][NextPose \/ NextDrift]_vars

\* C15 as claimed: on a pose stream that is not sorted find_nearest_frames
\* does not silently misbehave: whenever it returns without raising, prev is
\* the greatest in-window pose timestamp <= target (None when there is none)
\* and next is the least in-window pose timestamp >= target.
C15_UnsortedNotSilent ==
    (pose_pc # "start" /\ ~IsSorted(pose_ts) /\ Found) =>
        /\ Prev = ExpectedPrev
        /\ Nxt = ExpectedNext

BeforeFirst == pose_ts # <<>> /\ target < pose_ts[1]
AfterLast == pose_ts # <<>> /\ target > pose_ts[Len(pose_ts)]

\* C16: on every non-empty sorted pose stream and for every window, a camera
\* timestamp strictly earlier than the first pose timestamp or strictly
\* later than the last one gets no pose from interpolate_pose, also when the
\* nearest pose lies inside the window; so with the camera base 2,000 ms
\* before the pose stream the first 6 frames of the 3 fps capture are all
\* dropped and the match count of the whole capture is below the frame count.
C16_OutsideStreamDropped ==
    /\ (pose_pc = "done" /\ IsSorted(pose_ts) /\ (BeforeFirst \/ AfterLast)) =>
            pose = Return(None)
    /\ (drift_ms = 2000) =>
        /\ cam_ts[1] = pose_ts[1] - 2000
        /\ cam_i <= 6 => matched = 0
        /\ cam_i >= 1 => first_result = Return(None)
        /\ AllLookedUp => matched < Len(cam_ts)

\* A target one before the first pose with a window of at least one: the
\* first pose is found as next, inside the window, and the pose is still None.
C16_Witness ==
    /\ pose_pc = "done"
    /\ IsSorted(pose_ts)
    /\ BeforeFirst
    /\ pose_ts[1] - target <= window
    /\ Nxt = Some(pose_ts[1])
    /\ Prev = None
    /\ pose = Return(None)

(***************************************************************************)
(* SpecDict: extract_translation_logic (tests/test_m4_dict_mutation.py)    *)
(* called again and again on one camera_pose record.  A Python list is an  *)
(* object: the record holds a reference to its translation list and the    *)
(* function returns a reference, so lists live in a heap and heap[r] is    *)
(* the content of list r.                                                  *)
(***************************************************************************)
Coords == -MaxCoord..MaxCoord
Translations == UNION {[1..n -> Coords] : n \in 0..MaxComponents}

\* a version that works on a copy: the record's list is left alone
extract_translation_logic_copy(h, camera_pose) ==
    LET transl == camera_pose.translation
    IN  IF Len(h[transl]) < 3
        THEN [heap |-> h, out |-> Raise(IndexError)]
        ELSE [heap |-> Append(h, [h[transl] EXCEPT ![3] = @ * (-1)]),
              out |-> Return(Len(h) + 1)]

\* transl = camera_pose["translation"] binds the record's own list;
\* transl[2] *= -1 reads and writes its third element and raises IndexError
\* on a shorter list, before the length test of line 23 is reached.
extract_translation_logic(h, camera_pose) ==
    LET transl == camera_pose.translation
    IN  IF Len(h[transl]) < 3
        THEN [heap |-> h, out |-> Raise(IndexError)]
        ELSE LET h1 == [h EXCEPT ![transl][3] = @ * (-1)]
             IN  IF Len(h1[transl]) < 3
                 THEN [heap |-> Append(h1, <<0, 0, 0>>),
                       out |-> Return(Len(h1) + 1)]
                 ELSE [heap |-> h1, out |-> Return(transl)]

InitDict ==
    /\ translation0 \in Translations
    /\ heap = <<translation0>>
    /\ cam_pose = [translation |-> 1]
    /\ extract_result = NotCalled
    /\ extract_calls = 0
    /\ CoreIdle /\ DirIdle /\ RewriteIdle /\ RunIdle /\ MockIdle

CallExtract ==
    /\ extract_calls < MaxExtractCalls
    /\ LET r == extract_translation_logic(heap, cam_pose)
       IN  /\ heap' = r.heap
           /\ extract_result' = r.out
    /\ extract_calls' = extract_calls + 1
    /\ UNCHANGED <<cam_pose, translation0, coreVars, dirVars, rewriteVars, runVars, mockVars>>

NextDict == CallExtract

SpecDict == InitDict /\ [][NextDict]_vars

Stored == heap[cam_pose.translation]
Sign(k) == IF k % 2 = 0 THEN 1 ELSE -1

\* C13: on a record whose translation has at least three components,
\* extract_translation_logic negates the z component in place, in the
\* record's own list, and returns that same list: after k calls the stored
\* (and returned) z is the original z times (-1)^k, the other components are
\* as they were and no other list exists; a call on a non-zero z always
\* changes the stored list, so the function is not idempotent.
C13_NegatesInPlace ==
    /\ []((Len(translation0) >= 3) =>
            /\ Len(heap) = 1
            /\ Len(Stored) = Len(translation0)
            /\ Stored[3] = translation0[3] * Sign(extract_calls)
            /\ \A i \in DOMAIN Stored : i # 3 => Stored[i] = translation0[i]
            /\ extract_calls >= 1 =>
                /\ extract_result = Return(cam_pose.translation)
                /\ heap[extract_result.val][3]
                       = translation0[3] * Sign(extract_calls))
    /\ [][(Len(translation0) >= 3 /\ translation0[3] # 0
             /\ extract_calls' = extract_calls + 1) => heap' # heap]_vars

\* Two calls on [1, 1, 1]: z went to -1 and is back at 1, and the list
\* returned is the record's.
C13_Witness ==
    /\ translation0 = <<1, 1, 1>>
    /\ extract_calls = 2
    /\ heap = <<translation0>>
    /\ extract_result = Return(1)

(***************************************************************************)
(* SpecDir: the two directory checks of tests/test_h1_csvwriter_dircheck.py*)
(* called once on a file path and a filesystem.  A path is relative to the *)
(* working directory and is the list of its components; "a/b/" ends with   *)
(* an empty component.  The filesystem gives every path below the working  *)
(* directory its kind; the working directory itself is a directory.        *)
(***************************************************************************)
Names == {"a", "b"}
PathsTo(depth) == UNION {[1..n -> Names] : n \in 1..depth}
Kinds == {"dir", "file", "none"}
FileExistsError == "FileExistsError"
NotADirectoryError == "NotADirectoryError"

Front(path) == SubSeq(path, 1, Len(path) - 1)
Prefixes(path) == {SubSeq(path, 1, n) : n \in 1..Len(path)}

\* something exists at a path only inside an existing directory
WellFormed(f) ==
    \A q \in DOMAIN f :
        (f[q] # "none" /\ Len(q) > 1) => f[Front(q)] = "dir"
\* the entries a filesystem of the model may hold: anything directly in
\* the working directory and in the directories a, a/a, ... below it
Entries == {q \in PathsTo(MaxDepth) : \A i \in 1..(Len(q) - 1) : q[i] = "a"}
FileSystems == {f \in [Entries -> Kinds] : WellFormed(f)}

\* the file paths passed: up to one level below the deepest entry, with or
\* without a trailing separator
FilePaths ==
    PathsTo(MaxDepth + 1)
        \cup {Append(q, "") : q \in PathsTo(MaxDepth)}

KindOf(f, path) ==
    IF path = <<>> THEN "dir"
    ELSE IF path \in DOMAIN f THEN f[path]
    ELSE "none"

\* os.path.dirname: everything before the last separator ("" when none)
dirname(path) == Front(path)

\* os.path.isdir; "a/" names what "a" names when that is a directory
isdir(f, path) ==
    IF path # <<>> /\ path[Len(path)] = ""
    THEN KindOf(f, Front(path)) = "dir"
    ELSE KindOf(f, path) = "dir"

\* a makedirs that reports success and creates nothing
makedirs_nothing(f, name) == [fs |-> f, out |-> Return(None)]

\* os.makedirs(name, exist_ok=True): creates name and its missing ancestors;
\* raises when an ancestor or name itself exists and is not a directory.
makedirs(f, name) ==
    IF \E q \in Prefixes(name) : q # name /\ KindOf(f, q) = "file"
    THEN [fs |-> f, out |-> Raise(NotADirectoryError)]
    ELSE IF KindOf(f, name) = "file"
    THEN [fs |-> f, out |-> Raise(FileExistsError)]
    ELSE [fs |-> [q \in DOMAIN f \cup Prefixes(name) |->
                    IF q \in Prefixes(name) THEN "dir" ELSE f[q]],
          out |-> Return(None)]

\* a check that never creates anything
csv_writer_directory_check_never(f, path) ==
    [fs |-> f, out |-> Return("skipped")]

\* lines 20-27: the test is on the file path itself
csv_writer_directory_check_BUGGY(f, path) ==
    LET directory_name == dirname(path)
    IN  IF directory_name # <<>> /\ ~isdir(f, path)
        THEN LET made == makedirs(f, directory_name)
             IN  IF made.out.exc = NoError
                 THEN [fs |-> made.fs, out |-> Return("created_directory")]
                 ELSE made
        ELSE [fs |-> f, out |-> Return("skipped")]

\* lines 34-40: the test is on the directory name
csv_writer_directory_check_CORRECT(f, path) ==
    LET directory_name == dirname(path)
    IN  IF directory_name # <<>> /\ ~isdir(f, directory_name)
        THEN LET made == makedirs(f, directory_name)
             IN  IF made.out.exc = NoError
                 THEN [fs |-> made.fs, out |-> Return("created_directory")]
                 ELSE made
        ELSE [fs |-> f, out |-> Return("skipped")]

InitDir ==
    /\ fs0 \in FileSystems
    /\ fs = fs0
    /\ file_path \in FilePaths
    /\ dir_check = ""
    /\ dir_result = NotCalled
    /\ CoreIdle /\ DictIdle /\ RewriteIdle /\ RunIdle /\ MockIdle

CallBuggy ==
    /\ dir_result = NotCalled
    /\ LET r == csv_writer_directory_check_BUGGY(fs, file_path)
       IN  fs' = r.fs /\ dir_result' = r.out
    /\ dir_check' = "buggy"
    /\ UNCHANGED <<fs0, file_path, coreVars, dictVars, rewriteVars, runVars, mockVars>>

CallCorrect ==
    /\ dir_result = NotCalled
    /\ LET r == csv_writer_directory_check_CORRECT(fs, file_path)
       IN  fs' = r.fs /\ dir_result' = r.out
    /\ dir_check' = "correct"
    /\ UNCHANGED <<fs0, file_path, coreVars, dictVars, rewriteVars, runVars, mockVars>>

NextDir == CallBuggy \/ CallCorrect

SpecDir == InitDir /\ [][NextDir]_vars

HasParentName == dirname(file_path) # <<>>
ParentExists == isdir(fs0, dirname(file_path))
PathIsDirectory == isdir(fs0, file_path)
\* the directory name, or a directory above it, is a regular file
ParentBlocked == \E q \in Prefixes(dirname(file_path)) : KindOf(fs0, q) = "file"

\* C14 as claimed: for a file path with a non-empty directory name the
\* correct check returns 'created_directory' exactly when the parent
\* directory does not exist and 'skipped' when it exists; the buggy check
\* returns 'created_directory' exactly when the file path is not an existing
\* directory and 'skipped' when it is one.
C14_CheckResults ==
    (HasParentName /\ dir_result # NotCalled) =>
        /\ dir_check = "correct" =>
            dir_result = IF ParentExists THEN Return("skipped")
                         ELSE Return("created_directory")
        /\ dir_check = "buggy" =>
            dir_result = IF PathIsDirectory THEN Return("skipped")
                         ELSE Return("created_directory")

\* C14 as amended: the same, unless the directory name or a directory above
\* it exists as a regular file; then the directory cannot be made, the check
\* raises what os.makedirs raises and returns nothing.
C14_CheckResultsUnlessBlocked ==
    (HasParentName /\ dir_result # NotCalled) =>
        /\ dir_check = "correct" =>
            dir_result = IF ParentExists THEN Return("skipped")
                         ELSE IF ParentBlocked
                         THEN makedirs(fs0, dirname(file_path)).out
                         ELSE Return("created_directory")
        /\ dir_check = "buggy" =>
            dir_result = IF PathIsDirectory THEN Return("skipped")
                         ELSE IF ParentBlocked
                         THEN makedirs(fs0, dirname(file_path)).out
                         ELSE Return("created_directory")
        /\ ParentBlocked =>
            /\ dir_result.exc \in {FileExistsError, NotADirectoryError}
            /\ fs = fs0

\* The buggy check on a/b where the directory a exists and a/b does not:
\* 'created_directory' although the parent was there (the correct check
\* skips in this state).
C14_Witness ==
    /\ file_path = <<"a", "b">>
    /\ fs0[<<"a">>] = "dir"
    /\ fs0[<<"a", "b">>] = "none"
    /\ dir_check = "buggy"
    /\ dir_result = Return("created_directory")
    /\ csv_writer_directory_check_CORRECT(fs0, file_path).out = Return("skipped")

(***************************************************************************)
(* The config rewrite of perseusxr_process.py (main, lines 48-69), which   *)
(* tests/test_c3_yaml_mutation.py replicates as simulate_config_mutation.  *)
(*                                                                         *)
(* Text.  A line is the list of its tokens and stands for the string that  *)
(* their concatenation is.  The tokens are the words the code looks for,   *)
(* the separators it tells apart, a word "x" that stands for any other     *)
(* text, and the values it writes.  "tone_mapping_method" is the two       *)
(* tokens tone_mapping and _method, so that `"tone_mapping:" in line` is   *)
(* false of it as it is in Python.  The newline ends a line and occurs     *)
(* nowhere else, as in what readlines() returns.                           *)
(***************************************************************************)
SP == " "
NL == "\n"
COLON == ":"
YUV == "yuv_to_rgb"
TM == "tone_mapping"
METHOD == "_method"
CLIP == "clahe_clip_limit"
WORD == "x"
ValTrue == "true"
ValClahe == "\"clahe\""
ValClip == "2.0"

\* `key in line`: the key's tokens occur in the line, one after the other
Contains(line, key) ==
    \E i \in 1..(Len(line) - Len(key) + 1) :
        SubSeq(line, i, i + Len(key) - 1) = key

\* line.split(":")[0]: the text before the first colon, all of it if none
SplitFirst(line) ==
    IF \E i \in DOMAIN line : line[i] = COLON
    THEN LET c == CHOOSE i \in DOMAIN line :
                    /\ line[i] = COLON
                    /\ \A j \in 1..(i - 1) : line[j] # COLON
         IN  SubSeq(line, 1, c - 1)
    ELSE line

\* line.strip() is not empty
NotBlank(line) == \E i \in DOMAIN line : line[i] \notin {SP, NL}

\* line.startswith(" ")
StartsWithSpace(line) == line # <<>> /\ line[1] = SP

\* the three values forced, as written after the text before the colon
ForcedTrue == <<COLON, SP, ValTrue, NL>>
ForcedClahe == <<COLON, SP, ValClahe, NL>>
ForcedClip == <<COLON, SP, ValClip, NL>>

\* One turn of the loop (lines 31-49 of the test, 49-67 of main): the line
\* appended to modified_lines and in_yuv after it.  The tests are made in
\* the code's order and each one on the whole line.
rewrite_line(in_yuv, line) ==
    IF Contains(line, <<YUV, COLON>>)
    THEN [in_yuv |-> TRUE, line |-> line]
    ELSE IF in_yuv /\ Contains(line, <<TM, COLON>>)
    THEN [in_yuv |-> in_yuv, line |-> SplitFirst(line) \o ForcedTrue]
    ELSE IF in_yuv /\ Contains(line, <<TM, METHOD, COLON>>)
    THEN [in_yuv |-> in_yuv, line |-> SplitFirst(line) \o ForcedClahe]
    ELSE IF in_yuv /\ Contains(line, <<CLIP, COLON>>)
    THEN [in_yuv |-> in_yuv, line |-> SplitFirst(line) \o ForcedClip]
    ELSE IF NotBlank(line) /\ ~StartsWithSpace(line)
    THEN [in_yuv |-> IF in_yuv /\ ~Contains(line, <<YUV>>) THEN FALSE
                     ELSE in_yuv,
          line |-> line]
    ELSE [in_yuv |-> in_yuv, line |-> line]

RECURSIVE simulate_from(_, _, _)
simulate_from(config_lines, in_yuv, modified_lines) ==
    IF config_lines = <<>> THEN modified_lines
    ELSE LET r == rewrite_line(in_yuv, Head(config_lines))
         IN  simulate_from(Tail(config_lines), r.in_yuv,
                           Append(modified_lines, r.line))

\* modified_lines = [], in_yuv = False, the loop, return modified_lines
simulate_config_mutation(config_lines) ==
    simulate_from(config_lines, FALSE, <<>>)

(***************************************************************************)
(* SpecRewrite: one call of simulate_config_mutation on a config file of   *)
(* up to MaxLines lines, each drawn from LineForms: the section header,    *)
(* the three keys with a plain value, with a value that holds a colon and  *)
(* with a trailing comment that names another key, other keys, a key that  *)
(* ends in tone_mapping, a top-level key that starts with yuv_to_rgb, a    *)
(* blank line, and a last line without its newline.                        *)
(***************************************************************************)
LineForms == {
    <<YUV, COLON, NL>>,                                  \* yuv_to_rgb:
    <<SP, TM, COLON, SP, WORD, NL>>,                     \*  tone_mapping: x
    <<SP, TM, METHOD, COLON, SP, WORD, COLON, WORD, NL>>,\*  tone_mapping_method: x:x
    <<SP, CLIP, COLON, SP, WORD, NL>>,                   \*  clahe_clip_limit: x
    <<SP, CLIP, COLON, SP, WORD, SP, TM, COLON, NL>>,    \*  clahe_clip_limit: x tone_mapping:
    <<SP, WORD, TM, COLON, SP, WORD, NL>>,               \*  xtone_mapping: x
    <<SP, WORD, COLON, SP, WORD, NL>>,                   \*  x: x
    <<TM, COLON, SP, WORD, NL>>,                         \* tone_mapping: x
    <<WORD, COLON, NL>>,                                 \* x:
    <<YUV, WORD, COLON, NL>>,                            \* yuv_to_rgbx:
    <<NL>>,                                              \* (blank)
    <<SP, TM, COLON, SP, WORD>>                          \*  tone_mapping: x (no newline)
    }

EndsWithNewline(line) == line # <<>> /\ line[Len(line)] = NL

\* what readlines() can return: only the last line may lack its newline
ConfigFiles(longest) ==
    {f \in UNION {[1..n -> LineForms] : n \in 0..longest} :
        \A i \in 1..(Len(f) - 1) : EndsWithNewline(f[i])}

InitRewrite ==
    /\ cfg_lines \in ConfigFiles(MaxLines)
    /\ cfg_modified = NotCalled
    /\ CoreIdle /\ DictIdle /\ DirIdle /\ RunIdle /\ MockIdle

CallRewrite ==
    /\ cfg_modified = NotCalled
    /\ cfg_modified' = Return(simulate_config_mutation(cfg_lines))
    /\ UNCHANGED <<cfg_lines, coreVars, dictVars, dirVars, runVars, mockVars>>

NextRewrite == CallRewrite

SpecRewrite == InitRewrite /\ [][NextRewrite]_vars

(***************************************************************************)
(* The words of the rewrite's contract, read off the file as YAML lays it  *)
(* out and not off the loop: the yuv_to_rgb section starts after a line    *)
(* that begins with "yuv_to_rgb:" in the first column and ends before the  *)
(* next line that is not blank and not indented; a line holds a key when   *)
(* the key and a colon follow its indentation.                             *)
(***************************************************************************)
IsHeader(line) == Len(line) >= 2 /\ SubSeq(line, 1, 2) = <<YUV, COLON>>
TopLevel(line) == NotBlank(line) /\ ~StartsWithSpace(line)

InYuvSection(lines, i) ==
    \E j \in 1..(i - 1) :
        /\ IsHeader(lines[j])
        /\ \A k \in (j + 1)..i : ~TopLevel(lines[k])

\* the line without its leading spaces
Unindented(line) ==
    IF \A i \in DOMAIN line : line[i] = SP THEN <<>>
    ELSE LET b == CHOOSE i \in DOMAIN line :
                    line[i] # SP /\ \A j \in 1..(i - 1) : line[j] = SP
         IN  SubSeq(line, b, Len(line))

HoldsKey(line, key) ==
    /\ StartsWithSpace(line)
    /\ Len(Unindented(line)) > Len(key)
    /\ SubSeq(Unindented(line), 1, Len(key) + 1) = key \o <<COLON>>

KeyTM == <<TM>>
KeyMethod == <<TM, METHOD>>
KeyClip == <<CLIP>>

\* line i of the file is one of the three keys inside the yuv_to_rgb section
ForcedKeyLine(lines, i) ==
    /\ InYuvSection(lines, i)
    /\ \E key \in {KeyTM, KeyMethod, KeyClip} : HoldsKey(lines[i], key)

Rewritten == cfg_modified # NotCalled
Written == cfg_modified.val

\* C11 as claimed: after the rewrite every space-indented line of the
\* yuv_to_rgb section that holds the key tone_mapping, tone_mapping_method
\* or clahe_clip_limit reads the text before its first colon followed by
\* ': true', ': "clahe"' and ': 2.0' respectively, whatever its old value.
C11_KeysForced ==
    Rewritten =>
        \A i \in DOMAIN cfg_lines :
            InYuvSection(cfg_lines, i) =>
                /\ HoldsKey(cfg_lines[i], KeyTM) =>
                    Written[i] = SplitFirst(cfg_lines[i]) \o ForcedTrue
                /\ HoldsKey(cfg_lines[i], KeyMethod) =>
                    Written[i] = SplitFirst(cfg_lines[i]) \o ForcedClahe
                /\ HoldsKey(cfg_lines[i], KeyClip) =>
                    Written[i] = SplitFirst(cfg_lines[i]) \o ForcedClip

\* C17 as claimed: the rewrite writes as many lines as it read, in the same
\* order, and every line that is not one of the three keys inside the
\* yuv_to_rgb section is written back unchanged; so a tone_mapping key of
\* another section, one that follows a later top-level key, is not rewritten.
C17_OtherLinesUnchanged ==
    Rewritten =>
        /\ Len(Written) = Len(cfg_lines)
        /\ \A i \in DOMAIN cfg_lines :
            ~ForcedKeyLine(cfg_lines, i) => Written[i] = cfg_lines[i]

\* C18 as claimed: the rewrite is idempotent: applied to its own output it
\* returns that output.
C18_Idempotent ==
    Rewritten => simulate_config_mutation(Written) = Written

(***************************************************************************)
(* SpecRun: two runs of the processor, A and B, started on the same        *)
(* checkout, so on the same perseusxr-reconstruction/config/               *)
(* pipeline_config.yml.  Each run is main(): the two checks that exit with *)
(* status 1, the config rewrite inside its try block, the launch of the    *)
(* engine and the engine's exit.  The steps of a run that touch the file   *)
(* are the ones the operating system sees: each read() call that           *)
(* readlines() makes (it reads from where the last call ended until a call *)
(* returns nothing), the open for writing, which truncates the file, and   *)
(* the write of modified_lines when the file is closed.  Nothing orders    *)
(* the steps of one run against the other's: the code takes no lock, so    *)
(* the other run's truncate and write can fall between two read() calls.   *)
(*                                                                         *)
(* Bytes.  A token is the string it stands for, a character is a byte, and *)
(* a read that starts inside a token returns the rest of that token.       *)
(***************************************************************************)
\* len() of a text given as its tokens
RECURSIVE TextLen(_)
TextLen(text) ==
    IF text = <<>> THEN 0 ELSE Len(Head(text)) + TextLen(Tail(text))

\* "".join(lines): the content of a file whose lines these are
RECURSIVE Flat(_)
Flat(lines) == IF lines = <<>> THEN <<>> ELSE Head(lines) \o Flat(Tail(lines))

\* text[offset:]
RECURSIVE DropBytes(_, _)
DropBytes(text, offset) ==
    IF offset = 0 \/ text = <<>> THEN text
    ELSE IF Len(Head(text)) <= offset
    THEN DropBytes(Tail(text), offset - Len(Head(text)))
    ELSE <<SubSeq(Head(text), offset + 1, Len(Head(text)))>> \o Tail(text)

\* the lines of a text as readlines() cuts them: after every newline
RECURSIVE SplitLines(_)
SplitLines(text) ==
    IF text = <<>> THEN <<>>
    ELSE IF \E i \in DOMAIN text : text[i] = NL
    THEN LET n == CHOOSE i \in DOMAIN text :
                    text[i] = NL /\ \A j \in 1..(i - 1) : text[j] # NL
         IN  <<SubSeq(text, 1, n)>> \o
             SplitLines(SubSeq(text, n + 1, Len(text)))
    ELSE <<text>>

\* one read() call on the file at the reader's offset: what is in the file
\* beyond the offset, nothing when the file ends at or before it
read(content, offset) == DropBytes(Flat(content), offset)

RunIds == {"A", "B"}
RunLineForms == {
    <<YUV, COLON, NL>>,                                  \* yuv_to_rgb:
    <<SP, TM, COLON, SP, WORD, NL>>,                     \*  tone_mapping: x
    <<SP, CLIP, COLON, SP, WORD, SP, TM, COLON, NL>>     \*  clahe_clip_limit: x tone_mapping:
    }
RunFiles == UNION {[1..n -> RunLineForms] : n \in 0..MaxRunLines}

\* f.writelines(modified_lines) on a file opened with "w": the lines are
\* written from the start of the file over what is there, and what is
\* there beyond them stays.
WriteOver(content, modified_lines) ==
    SplitLines(Flat(modified_lines) \o
               DropBytes(Flat(content), TextLen(Flat(modified_lines))))

NewRun(ok) ==
    [pc |-> "start", input_ok |-> ok, buffer |-> <<>>,
     modified_lines |-> <<>>,
     before |-> <<>>, warned |-> FALSE, success |-> FALSE, status |-> None,
     returncode |-> None, steps |-> <<>>]

\* a main() that goes on to the config file whatever the two checks find
Validate_unchecked(p) ==
    /\ run[p].pc = "start"
    /\ run' = [run EXCEPT ![p].pc = "config", ![p].before = cfg_file]
    /\ UNCHANGED <<cfg_file, cfg_orig, cfg_access, engine_script,
                   cfg_writer, cfg_shared, cfg_torn,
                   coreVars, dictVars, dirVars, rewriteVars, mockVars>>

InitRun ==
    /\ \/ cfg_access = "absent" /\ cfg_orig = <<>>
       \/ cfg_access \in {"rw", "ro"} /\ cfg_orig \in RunFiles
    /\ cfg_file = cfg_orig
    /\ engine_script \in BOOLEAN
    /\ run \in [RunIds -> {NewRun(ok) : ok \in BOOLEAN}]
    /\ cfg_writer = ""
    /\ cfg_shared = {}
    /\ cfg_torn = FALSE
    /\ CoreIdle /\ DictIdle /\ DirIdle /\ RewriteIdle /\ MockIdle

Others == <<coreVars, dictVars, dirVars, rewriteVars, mockVars>>

\* what run p does to a file that run cfg_writer wrote last
Sharing(kind, p) ==
    IF cfg_writer \notin {"", p}
    THEN cfg_shared \cup {<<kind, p, cfg_writer>>}
    ELSE cfg_shared

\* lines 17-33: the input directory and the engine script
Validate(p) ==
    /\ run[p].pc = "start"
    /\ run' = [run EXCEPT ![p] =
            IF ~run[p].input_ok \/ ~engine_script
            THEN [@ EXCEPT !.pc = "exited", !.status = Some(1),
                           !.before = cfg_file,
                           !.steps = Append(@, "exit")]
            ELSE [@ EXCEPT !.pc = "config", !.before = cfg_file]]
    /\ UNCHANGED <<cfg_file, cfg_orig, cfg_access, engine_script,
                   cfg_writer, cfg_shared, cfg_torn, Others>>

\* lines 44-68: exists(), then one read() call of readlines().  A call
\* that returns bytes adds them to what the run has read and another call
\* follows; the call that returns nothing ends readlines(), and the loop
\* of lines 48-68 runs over the lines of what was read.  The read is torn
\* when it is not of one content of the file: the first call finds the
\* file truncated by the other run, or a later call finds more bytes.
ReadConfig(p) ==
    /\ run[p].pc = "config"
    /\ IF cfg_access = "absent"
       THEN /\ run' = [run EXCEPT ![p].pc = "launch"]
            /\ UNCHANGED <<cfg_shared, cfg_torn>>
       ELSE LET chunk == read(cfg_file, TextLen(run[p].buffer))
                first == run[p].buffer = <<>>
                config_lines == SplitLines(run[p].buffer)
            IN  /\ run' = [run EXCEPT ![p] =
                        IF chunk = <<>>
                        THEN [@ EXCEPT !.pc = "open",
                                       !.modified_lines =
                                           simulate_config_mutation(config_lines),
                                       !.steps = Append(@, "read")]
                        ELSE [@ EXCEPT !.buffer = @ \o chunk]]
                /\ cfg_shared' = IF first \/ chunk # <<>>
                                 THEN Sharing("read", p) ELSE cfg_shared
                /\ cfg_torn' =
                       \/ cfg_torn
                       \/ first /\ \E q \in RunIds \ {p} : run[q].pc = "write"
                       \/ ~first /\ chunk # <<>>
    /\ UNCHANGED <<cfg_file, cfg_orig, cfg_access, engine_script,
                   cfg_writer, Others>>

\* line 70: open(config_path, "w") truncates; on a file that cannot be
\* written it raises, which lines 72-73 turn into a warning
OpenForWrite(p) ==
    /\ run[p].pc = "open"
    /\ IF cfg_access = "ro"
       THEN /\ run' = [run EXCEPT ![p].pc = "launch", ![p].warned = TRUE,
                           ![p].steps = Append(@, "warn")]
            /\ UNCHANGED <<cfg_file, cfg_writer, cfg_shared>>
       ELSE /\ run' = [run EXCEPT ![p].pc = "write",
                           ![p].steps = Append(@, "truncate")]
            /\ cfg_file' = <<>>
            /\ cfg_writer' = p
            /\ cfg_shared' = Sharing("overwrite", p)
    /\ UNCHANGED <<cfg_orig, cfg_access, engine_script, cfg_torn, Others>>

\* line 71 and the end of the with block
WriteLines(p) ==
    /\ run[p].pc = "write"
    /\ cfg_file' = WriteOver(cfg_file, run[p].modified_lines)
    /\ cfg_writer' = p
    /\ cfg_shared' = Sharing("overwrite", p)
    /\ run' = [run EXCEPT ![p].pc = "launch",
                   ![p].steps = Append(@, "write")]
    /\ UNCHANGED <<cfg_orig, cfg_access, engine_script, cfg_torn, Others>>

\* line 93: subprocess.run starts the engine with --config config_path
Launch(p) ==
    /\ run[p].pc = "launch"
    /\ run' = [run EXCEPT ![p].pc = "engine",
                   ![p].steps = Append(@, "launch")]
    /\ UNCHANGED <<cfg_file, cfg_orig, cfg_access, engine_script,
                   cfg_writer, cfg_shared, cfg_torn, Others>>

\* lines 93-103: the engine exits; check=True raises on a non-zero code
EngineExit(p, returncode) ==
    /\ run[p].pc = "engine"
    /\ run' = [run EXCEPT ![p] =
            IF returncode = 0
            THEN [@ EXCEPT !.pc = "done", !.success = TRUE,
                           !.status = Some(0),
                           !.returncode = Some(returncode),
                           !.steps = Append(@, "success")]
            ELSE [@ EXCEPT !.pc = "exited", !.status = Some(1),
                           !.returncode = Some(returncode),
                           !.steps = Append(@, "exit")]]
    /\ UNCHANGED <<cfg_file, cfg_orig, cfg_access, engine_script,
                   cfg_writer, cfg_shared, cfg_torn, Others>>

NextRun ==
    \E p \in RunIds :
        \/ Validate(p)
        \/ ReadConfig(p)
        \/ OpenForWrite(p)
        \/ WriteLines(p)
        \/ Launch(p)
        \/ \E returncode \in {0, 1} : EngineExit(p, returncode)

SpecRun == InitRun /\ [][NextRun]_vars

Ended(p) == run[p].status # None
\* run p is past its rewrite: it read the file and wrote modified_lines
PastRewrite(p) ==
    /\ run[p].pc \in {"launch", "engine", "done", "exited"}
    /\ run[p].input_ok /\ engine_script
    /\ cfg_access = "rw"

\* C12 as claimed: no mutable configuration is shared between runs that
\* execute concurrently: in no interleaving does a run read, or overwrite,
\* a configuration that the other run wrote.
C12_ConfigIsolated == cfg_shared = {}

\* C19 as claimed: when both runs have read, rewritten and written the
\* config file, each in whole-file steps (no run read the file while the
\* other had it truncated), the file is the rewrite of the original
\* content applied once, whatever the interleaving, with no line lost, and
\* a tone_mapping key of the yuv_to_rgb section reads ': true' in it.
C19_RaceYieldsOneRewrite ==
    ((\A p \in RunIds : PastRewrite(p)) /\ ~cfg_torn) =>
        /\ cfg_file = simulate_config_mutation(cfg_orig)
        /\ Len(cfg_file) = Len(cfg_orig)
        /\ \A i \in DOMAIN cfg_orig :
            (InYuvSection(cfg_orig, i) /\ HoldsKey(cfg_orig[i], KeyTM)) =>
                cfg_file[i] = SplitFirst(cfg_orig[i]) \o ForcedTrue

\* C20 as claimed: the edit of pipeline_config.yml is temporary: when a run
\* has ended, the engine having succeeded or failed, and no other run has
\* started, the file's content is what it was before the run.
C20_EditIsTemporary ==
    \A p \in RunIds :
        (Ended(p) /\ \A q \in RunIds \ {p} : run[q].pc = "start") =>
            cfg_file = run[p].before

StepsOf(p) == run[p].steps
Took(p, step) == \E k \in DOMAIN StepsOf(p) : StepsOf(p)[k] = step
FileSteps == {"read", "truncate", "write"}

\* C21: a run whose input path is missing or not a directory, or that finds
\* no engine script, exits with status 1 and has done nothing else: it has
\* not read or written the config file and has not launched the engine.  A
\* run that launches the engine has by then finished with the config file:
\* it wrote its rewrite, or it warned of the failure it caught, or there
\* was no file, and it touches the file no more.  A non-zero engine exit
\* makes the run exit with status 1 and no success report; only a zero one
\* is reported as success, with status 0.
C21_ExitPaths ==
    \A p \in RunIds :
        /\ (run[p].pc # "start" /\ (~run[p].input_ok \/ ~engine_script)) =>
            /\ run[p].pc = "exited"
            /\ run[p].status = Some(1)
            /\ StepsOf(p) = <<"exit">>
            /\ run[p].modified_lines = <<>>
            /\ cfg_writer # p
            /\ ~run[p].success /\ ~run[p].warned
        /\ \A k \in DOMAIN StepsOf(p) :
            StepsOf(p)[k] = "launch" =>
                /\ \/ SubSeq(StepsOf(p), 1, k - 1) = <<"read", "truncate", "write">>
                   \/ /\ SubSeq(StepsOf(p), 1, k - 1) = <<"read", "warn">>
                      /\ run[p].warned
                   \/ k = 1 /\ cfg_access = "absent"
                /\ \A j \in (k + 1)..Len(StepsOf(p)) :
                    StepsOf(p)[j] \notin FileSteps \cup {"launch", "warn"}
        /\ run[p].returncode # None =>
            /\ Took(p, "launch")
            /\ IF run[p].returncode = Some(0)
               THEN run[p].success /\ run[p].status = Some(0)
               ELSE /\ ~run[p].success
                    /\ run[p].status = Some(1)
                    /\ run[p].pc = "exited"
        /\ run[p].success => run[p].returncode = Some(0)

\* Run A rewrote the file, launched the engine, and the engine failed:
\* status 1, no success; run B was stopped by its missing input directory.
C21_Witness ==
    /\ StepsOf("A") = <<"read", "truncate", "write", "launch", "exit">>
    /\ run["A"].returncode = Some(1)
    /\ run["A"].status = Some(1)
    /\ ~run["A"].success
    /\ ~run["B"].input_ok
    /\ StepsOf("B") = <<"exit">>
    /\ run["B"].status = Some(1)

\* what the two checks leave and report on the filesystem the call found
AfterBuggy == csv_writer_directory_check_BUGGY(fs0, file_path)
AfterCorrect == csv_writer_directory_check_CORRECT(fs0, file_path)
DirCalled == dir_result # NotCalled

\* nothing but the parent directory and the directories above it is
\* created, and nothing is removed or turned into something else
OnlyParentCreated ==
    /\ \A q \in DOMAIN fs0 : fs0[q] # "none" => KindOf(fs, q) = fs0[q]
    /\ \A q \in DOMAIN fs :
        KindOf(fs, q) # KindOf(fs0, q) =>
            q \in Prefixes(dirname(file_path)) /\ fs[q] = "dir"

\* C22 as claimed: on every filesystem and file path the buggy and the
\* correct check leave the same filesystem: afterwards the parent directory
\* exists whenever the directory name is not empty, and nothing else is
\* created or removed.
C22_SameFilesystem ==
    DirCalled =>
        /\ fs = AfterBuggy.fs
        /\ fs = AfterCorrect.fs
        /\ HasParentName => isdir(fs, dirname(file_path))
        /\ OnlyParentCreated

\* C22 as amended: the two checks leave the same filesystem, in which
\* nothing but the parent directory (and the directories above it) is
\* created and nothing is removed.  Afterwards the parent directory exists
\* whenever the directory name is not empty, unless the directory name or a
\* directory above it is a regular file: then both checks raise the same
\* error, the filesystem is as it was and the parent directory does not
\* exist.  Whenever the checks return they differ at most in the action
\* reported, and they differ exactly when the parent directory exists and
\* the file path is not a directory.
C22_SameFilesystemUnlessBlocked ==
    DirCalled =>
        /\ fs = AfterBuggy.fs
        /\ fs = AfterCorrect.fs
        /\ OnlyParentCreated
        /\ (HasParentName /\ ~ParentBlocked) => isdir(fs, dirname(file_path))
        /\ (HasParentName /\ ParentBlocked) =>
            /\ fs = fs0
            /\ ~isdir(fs, dirname(file_path))
            /\ AfterBuggy.out = AfterCorrect.out
            /\ AfterBuggy.out.exc \in {FileExistsError, NotADirectoryError}
        /\ (AfterBuggy.out # AfterCorrect.out) <=>
            (HasParentName /\ ParentExists /\ ~PathIsDirectory)
        /\ (AfterBuggy.out # AfterCorrect.out) =>
            /\ AfterBuggy.out = Return("created_directory")
            /\ AfterCorrect.out = Return("skipped")
            /\ fs = fs0

\* The correct check on a/b/a where nothing exists: the directories a and
\* a/b were made, the buggy check would have left the same filesystem.
C22_Witness ==
    /\ dir_check = "correct"
    /\ file_path = <<"a", "b", "a">>
    /\ fs0[<<"a">>] = "none"
    /\ dir_result = Return("created_directory")
    /\ fs[<<"a">>] = "dir"
    /\ fs[<<"a", "b">>] = "dir"
    /\ fs = AfterBuggy.fs


(***************************************************************************)
(* Mock session generator                                                  *)
(* (.agent/skills/prep_quest_session/scripts/mock_session_generator.py).   *)
(*                                                                         *)
(* The filesystem at and below output_dir is a record:                     *)
(*   root        what output_dir is: "none", "file" or "dir"               *)
(*   session     what output_dir/session.json is                           *)
(*   recorded    the frame_count that session.json holds, None without one *)
(*   intrinsics  intrinsics.json: "none", "old" (a file found there),      *)
(*               "dir", or "mock" (the file the generator writes)          *)
(*   sub         what each of camera_data, depth_data, pose_data is        *)
(*   frames      per data directory and frame index, the frame file of     *)
(*               that index: "absent", "old" or "mock"                     *)
(* The session_id of session.json (a time stamp) and the bytes of the      *)
(* frame files are left out: a file the generator wrote is "mock".         *)
(***************************************************************************)
IsADirectoryError == "IsADirectoryError"

OSKinds == {"none", "file", "dir"}
SubDirs == <<"camera_data", "depth_data", "pose_data">>
SubDirNames == {SubDirs[k] : k \in DOMAIN SubDirs}
FrameCounts == -1..MaxMockFrames
FrameIndices == 0..MaxMockFrames

\* range(frame_count)
range(n) == 0..(n - 1)

NoFrames == [i \in FrameIndices |-> "absent"]
OldFrames(k) == [i \in FrameIndices |-> IF i \in range(k) THEN "old" ELSE "absent"]

Nothing(kind) ==
    [root |-> kind, session |-> "none", recorded |-> None,
     intrinsics |-> "none",
     sub |-> [s \in SubDirNames |-> "none"],
     frames |-> [s \in SubDirNames |-> NoFrames]]

\* the directories a user can hand to the generator: nothing, a regular
\* file, or a directory with any kind of session.json, intrinsics.json and
\* data directories, the data directories holding the first k frames of an
\* earlier session
OutputDirs ==
    {Nothing("none"), Nothing("file")} \cup
    { [root |-> "dir", session |-> sk, recorded |-> rec, intrinsics |-> intr,
       sub |-> sb,
       frames |-> [s \in SubDirNames |->
                      IF sb[s] = "dir" THEN OldFrames(k) ELSE NoFrames]] :
        sk \in OSKinds,
        rec \in {None} \cup {Some(n) : n \in FrameCounts},
        intr \in {"none", "old", "dir"},
        sb \in [SubDirNames -> OSKinds],
        k \in 0..(MaxMockFrames + 1) }

WellFormedDir(d) == (d.session = "file") <=> (d.recorded # None)

\* os.path.exists(output_dir) and
\* os.path.exists(os.path.join(output_dir, "session.json"))
session_exists(d) == d.root = "dir" /\ d.session # "none"

\* the frame files of data directory s
FrameFiles(d, s) == {i \in FrameIndices : d.frames[s][i] # "absent"}

generate_mock_session(d, frame_count) ==
    IF session_exists(d)
    THEN [fs |-> d, out |-> Return(None), printed |-> "abort"]
    ELSE IF d.root = "file"
    THEN [fs |-> d, out |-> Raise(FileExistsError), printed |-> ""]
    ELSE
      LET blocked == {k \in DOMAIN SubDirs : d.sub[SubDirs[k]] = "file"}
          first == CHOOSE k \in blocked : \A j \in blocked : k <= j
          \* os.makedirs of output_dir and of the first n data directories
          made(n) ==
              [d EXCEPT !.root = "dir",
                        !.sub = [s \in SubDirNames |->
                                   IF \E k \in 1..n : SubDirs[k] = s
                                   THEN "dir" ELSE d.sub[s]]]
          \* json.dump(session_data, f)
          with_session ==
              [made(Len(SubDirs)) EXCEPT !.session = "file",
                                         !.recorded = Some(frame_count)]
          \* intrinsics.json and the frame files of range(frame_count)
          with_frames ==
              [with_session EXCEPT
                  !.intrinsics = "mock",
                  !.frames = [s \in SubDirNames |->
                                [i \in FrameIndices |->
                                   IF i \in range(frame_count)
                                   THEN "mock" ELSE d.frames[s][i]]]]
      IN IF blocked # {}
         THEN [fs |-> made(first - 1), out |-> Raise(FileExistsError),
               printed |-> ""]
         ELSE IF d.intrinsics = "dir"
         THEN [fs |-> with_session, out |-> Raise(IsADirectoryError),
               printed |-> ""]
         ELSE [fs |-> with_frames, out |-> Return(None),
               printed |-> "success"]

InitMock ==
    /\ out_dir \in {d \in OutputDirs : WellFormedDir(d)}
    /\ out_dir0 = out_dir
    /\ frames_arg = None
    /\ mock_result = NotCalled
    /\ mock_calls = 0
    /\ CoreIdle /\ DictIdle /\ DirIdle /\ RewriteIdle /\ RunIdle

CallGenerate ==
    /\ mock_calls < MaxMockCalls
    /\ \E frame_count \in FrameCounts :
         LET r == generate_mock_session(out_dir, frame_count)
         IN /\ out_dir' = r.fs
            /\ frames_arg' = Some(frame_count)
            /\ mock_result' = [out |-> r.out, printed |-> r.printed]
    /\ out_dir0' = out_dir
    /\ mock_calls' = mock_calls + 1
    /\ UNCHANGED <<coreVars, dictVars, dirVars, rewriteVars, runVars>>

NextMock == CallGenerate

SpecMock == InitMock /\ [][NextMock]_vars

MockCalled == mock_result # NotCalled

\* the latest call went past the guard and ran to its last line
Generated == MockCalled /\ mock_result.printed = "success"

\* a call on an output_dir that contains session.json returns and leaves
\* every file and directory as it was
SessionKept ==
    (MockCalled /\ session_exists(out_dir0)) =>
        /\ out_dir = out_dir0
        /\ mock_result.out = Return(None)
        /\ mock_result.printed = "abort"

\* after a call that generated, session.json records frame_count and each
\* data directory holds exactly frame_count frame files
SessionComplete ==
    Generated =>
        /\ out_dir.session = "file"
        /\ out_dir.recorded = frames_arg
        /\ \A s \in SubDirNames :
              /\ out_dir.sub[s] = "dir"
              /\ Cardinality(FrameFiles(out_dir, s)) = frames_arg[1]

\* C23: generate_mock_session never overwrites an existing session (a call
\* on an output_dir that already contains session.json returns without
\* creating, changing or deleting anything, so a second call after a
\* successful first one changes nothing), and after any call that does
\* generate, session.json records frame_count and each of camera_data,
\* depth_data and pose_data holds exactly frame_count frame files.
C23_NeverOverwrites == SessionKept /\ SessionComplete

=============================================================================
